---- MODULE Spec2Model ----
(***************************************************************************)
(* Model of hid-tools (src/src/main.rs): a command line program that finds *)
(* a HID device by vendor/product id, opens it with bounded retry          *)
(* (open_device_with_retry), optionally writes one fixed 64-byte output     *)
(* report and then reads one input report or reads input reports in a loop  *)
(* (read_input_reports).                                                    *)
(*                                                                          *)
(* The HID transport (crate hidapi) is the environment.  HidApi::new()      *)
(* enumerates the attached interfaces once and keeps the result;            *)
(* api.device_list() iterates that kept list (only refresh_devices, which   *)
(* needs &mut HidApi, replaces it, and open_device_with_retry only holds    *)
(* &HidApi and never calls it).  open_path, write and read succeed or fail  *)
(* as the environment chooses.                                              *)
(***************************************************************************)
EXTENDS Integers, Sequences, FiniteSets, TLC

(***************************************************************************)
(* Program constants                                                        *)
(***************************************************************************)
HID_REPORT_SIZE == 64

VENDOR_PAGE == 65346

RETRY_DELAY_MS == 100

(***************************************************************************)
(* Bounds of the model                                                      *)
(***************************************************************************)
\* args.retries ranges over 0..MaxRetries
MaxRetries == 2

\* the transport lists at most MaxDevices interfaces
MaxDevices == 2

\* at most MaxReads read calls are followed in one run
MaxReads == 3

\* payloads of 0..MaxPayloadLen bytes are supplied to the report exchange
MaxPayloadLen == 66

(***************************************************************************)
(* Option<T> as a sequence of length 0 or 1                                 *)
(***************************************************************************)
None == <<>>

Some(x) == <<x>>

IsSome(o) == Len(o) = 1

Unwrap(o) == o[1]

(***************************************************************************)
(* Input domains                                                            *)
(***************************************************************************)
\* 0x1234 and 0x5678: the identifiers a device can carry
DeviceIds == {4660, 22136}

\* the vendor page and the generic desktop page
UsagePages == {VENDOR_PAGE, 1}

\* errors open_path can return
OpenErrors == {"busy", "denied"}

RetryDelays == {RETRY_DELAY_MS, 250}

\* Interfaces as the transport lists them; the path identifies the entry.
DeviceLists ==
    UNION { { [i \in 1..n |-> [vendor_id  |-> f[i][1],
                               product_id |-> f[i][2],
                               usage_page |-> f[i][3],
                               path       |-> i]] :
              f \in [1..n -> DeviceIds \X DeviceIds \X UsagePages] } :
            n \in 0..MaxDevices }

(***************************************************************************)
(* hex::decode: two hex digits per byte, upper or lower case                *)
(***************************************************************************)
HexDigits == <<"0","1","2","3","4","5","6","7","8","9","a","b","c","d","e","f">>

HexUpper == <<"0","1","2","3","4","5","6","7","8","9","A","B","C","D","E","F">>

\* the value of each hex digit
HexTable ==
    [c \in {HexDigits[i] : i \in 1..16} \cup {HexUpper[i] : i \in 1..16} |->
        IF \E i \in 1..16 : HexDigits[i] = c
        THEN (CHOOSE i \in 1..16 : HexDigits[i] = c) - 1
        ELSE (CHOOSE i \in 1..16 : HexUpper[i] = c) - 1]

\* value of a hex digit, -1 for any other character
HexVal(c) == IF c \in DOMAIN HexTable THEN HexTable[c] ELSE -1

HexDecode(s) ==
    IF Len(s) % 2 # 0
    THEN [ok |-> FALSE, err |-> "OddLength", bytes |-> <<>>]
    ELSE IF \E i \in 1..Len(s) : HexVal(s[i]) < 0
         THEN [ok |-> FALSE, err |-> "InvalidHexCharacter", bytes |-> <<>>]
         ELSE [ok |-> TRUE, err |-> "",
               bytes |-> [i \in 1..(Len(s) \div 2) |->
                            16 * HexVal(s[2*i - 1]) + HexVal(s[2*i])]]

\* the hex text of a byte sequence (used to build the --data arguments)
HexText(bytes) ==
    [i \in 1..(2 * Len(bytes)) |->
        IF i % 2 = 1 THEN HexDigits[(bytes[(i + 1) \div 2] \div 16) + 1]
                     ELSE HexDigits[(bytes[i \div 2] % 16) + 1]]

\* byte sequences of length n: a repeated byte, or a running pattern
Ramp(n, step, off) == [i \in 1..n |-> (step * (i - 1) + off) % 256]

PayloadsOfLen(n) == {Ramp(n, 0, 255), Ramp(n, 37, 1)}

\* --data values of a whole program run
DataArgs ==
    { None,
      Some(<<>>),
      Some(<<"0","a","1","B">>),
      Some(<<"a","b","c">>),
      Some(<<"0","g">>),
      Some(HexText(Ramp(HID_REPORT_SIZE + 1, 37, 1))) }

\* --data values of the report exchange on its own
ExchangeDataArgs ==
    {None, Some(<<"a","b","c">>), Some(<<"z","z">>)} \cup
    { Some(HexText(p)) : p \in UNION { PayloadsOfLen(n) : n \in 0..MaxPayloadLen } }

ArgsOver(datas) ==
    [vid : {4660}, pid : {22136}, data : datas, retries : 0..MaxRetries,
     retry_delay : RetryDelays, continuous : BOOLEAN]

ZeroReport == [i \in 1..HID_REPORT_SIZE |-> 0]

VARIABLES
    args,          \* the parsed command line (struct Args)
    pc,            \* position in main / open_device_with_retry
    devices,       \* the list api.device_list() yields
    plug,          \* what became of the attached interfaces since it was made
    attempt,       \* loop variable of open_device_with_retry
    last_error,    \* Option: last open error recorded
    device_info,   \* Option: the candidate selected in this iteration
    device,        \* Option: path of the opened HidDevice
    output_report, \* the output buffer of main
    input_report,  \* the input buffer being read into
    console,       \* lines printed so far
    exit_status,   \* how main ended
    enumerations,  \* number of candidate selections (lines 49-58) so far
    opens,         \* number of open_path calls so far
    open_err,      \* Option: the error the latest open_path call returned
    sleeps,        \* number of thread::sleep calls so far
    slept_ms,      \* total time slept
    writes,        \* buffers passed to device.write, in order
    reads          \* number of device.read calls so far

vars == <<args, pc, devices, plug, attempt, last_error, device_info, device,
          output_report, input_report, console, exit_status, enumerations,
          opens, open_err, sleeps, slept_ms, writes, reads>>

acquireVars == <<attempt, last_error, device_info, enumerations, opens, open_err,
                 sleeps, slept_ms>>

ioVars == <<output_report, input_report, writes, reads>>

Line(fd, msg, arg) == [fd |-> fd, msg |-> msg, arg |-> arg]

Emit(con, fd, msg, arg) == Append(con, Line(fd, msg, arg))

Running == [kind |-> "running", error |-> ""]

Exited(kind, error) == [kind |-> kind, error |-> error]

(***************************************************************************)
(* open_device_with_retry                                                   *)
(***************************************************************************)
\* Iterator::find: the first element whose index is among hits (the indexes
\* of the elements satisfying the closure), if any
Find(devs, hits) ==
    IF \E i \in 1..Len(devs) : i \in hits
    THEN Some(devs[CHOOSE i \in 1..Len(devs) :
                     /\ i \in hits
                     /\ \A j \in 1..(i - 1) : j \notin hits])
    ELSE None

\* faulty variant of SelectDevice: the fallback scan compares the vendor only
SelectDeviceVendorOnly(devs, vid, pid, vendor_page) ==
    LET preferred == Find(devs, {i \in 1..Len(devs) :
                                        /\ devs[i].vendor_id = vid
                                        /\ devs[i].product_id = pid
                                        /\ devs[i].usage_page = vendor_page})
    IN  IF IsSome(preferred)
        THEN preferred
        ELSE Find(devs, {i \in 1..Len(devs) : devs[i].vendor_id = vid})

\* faulty variant of SelectDevice: no fallback scan
SelectDeviceNoFallback(devs, vid, pid, vendor_page) ==
    Find(devs, {i \in 1..Len(devs) :
                       /\ devs[i].vendor_id = vid
                       /\ devs[i].product_id = pid
                       /\ devs[i].usage_page = vendor_page})

\* faulty variant of SelectDevice: one scan that ignores the usage page
SelectDeviceSingleScan(devs, vid, pid, vendor_page) ==
    Find(devs, {i \in 1..Len(devs) :
                       devs[i].vendor_id = vid /\ devs[i].product_id = pid})

\* lines 49-58: the vendor-page interface, else any interface of the device
SelectDevice(devs, vid, pid, vendor_page) ==
    LET preferred == Find(devs, {i \in 1..Len(devs) :
                                        /\ devs[i].vendor_id = vid
                                        /\ devs[i].product_id = pid
                                        /\ devs[i].usage_page = vendor_page})
    IN  IF IsSome(preferred)
        THEN preferred
        ELSE Find(devs, {i \in 1..Len(devs) :
                       devs[i].vendor_id = vid /\ devs[i].product_id = pid})

\* faulty variant of ShouldSleep: the comparison is <= instead of <
ShouldSleepInclusive(att, max_retries) == att <= max_retries

\* faulty variant of ShouldSleep: every failed attempt is followed by a sleep
ShouldSleepAlways(att, max_retries) == TRUE

\* faulty variant of ShouldSleep: no sleep before the last retry
ShouldSleepEarly(att, max_retries) == att + 1 < max_retries

\* line 65: a failed attempt is announced and followed by a sleep
ShouldSleep(att, max_retries) == att < max_retries

\* faulty variant of LoopContinues: one iteration too many
LoopContinuesOneMore(att, max_retries) == att <= max_retries

\* faulty variant of LoopContinues: the range 0..max_retries
LoopContinuesExclusive(att, max_retries) == att + 1 < max_retries

\* line 47: for attempt in 0..=max_retries
LoopContinues(att, max_retries) == att + 1 <= max_retries

\* faulty variant of RecordError: the first error is kept
RecordFirstError(prev, e) == IF IsSome(prev) THEN prev ELSE Some(e)

\* line 64: the error kept for the final message
RecordError(prev, e) == Some(e)

\* faulty variant of AfterAcquireError: main goes on without a device
AfterAcquireErrorIgnored(kind) == "opened"

\* line 106: the ? operator returns the error of open_device_with_retry
\* from main
AfterAcquireError(kind) == "exit"

\* lines 101-103 and 45-47: HidApi::new() lists the devices; main announces
\* the search and enters open_device_with_retry
HidApiNew ==
    /\ pc = "start"
    /\ \E devs \in DeviceLists :
          /\ devices' = devs
          /\ console' = Emit(console, "stdout", "searching", <<args.vid, args.pid>>)
          /\ attempt' = 0
          /\ last_error' = None
          /\ pc' = "enumerate"
    /\ UNCHANGED <<args, plug, device_info, device, exit_status, enumerations, opens,
                   open_err, sleeps, slept_ms>>
    /\ UNCHANGED ioVars

\* line 101: HidApi::new()? fails and main returns the error
HidApiNewFails ==
    /\ pc = "start"
    /\ pc' = "exit"
    /\ exit_status' = Exited("HidApiError", "init")
    /\ UNCHANGED <<args, plug, devices, device, console>>
    /\ UNCHANGED acquireVars
    /\ UNCHANGED ioVars

\* lines 49-60 and 72-74: select a candidate, or return "Device not found"
FindDevice ==
    /\ pc = "enumerate"
    /\ enumerations' = enumerations + 1
    /\ LET found == SelectDevice(devices, args.vid, args.pid, VENDOR_PAGE)
       IN  IF IsSome(found)
           THEN /\ device_info' = found
                /\ pc' = "open"
                /\ UNCHANGED <<devices, attempt, last_error, exit_status>>
           ELSE /\ device_info' = None
                /\ devices' = <<>>
                /\ attempt' = 0
                /\ last_error' = None
                /\ pc' = AfterAcquireError("DeviceNotFound")
                /\ exit_status' = Exited("DeviceNotFound", "")
    /\ UNCHANGED <<args, plug, device, console, opens, open_err, sleeps, slept_ms>>
    /\ UNCHANGED ioVars

\* lines 61-62, 106, 108: open_path succeeds; the device is returned to main
OpenPathOk ==
    /\ pc = "open"
    /\ opens' = opens + 1
    /\ open_err' = None
    /\ device' = Some(Unwrap(device_info).path)
    /\ console' = Emit(console, "stdout", "opened", <<>>)
    /\ device_info' = None
    /\ devices' = <<>>
    /\ attempt' = 0
    /\ last_error' = None
    /\ pc' = "opened"
    /\ UNCHANGED <<args, plug, exit_status, enumerations, sleeps, slept_ms>>
    /\ UNCHANGED ioVars

\* lines 61, 63-64: open_path fails; the error is recorded
OpenPathErr ==
    /\ pc = "open"
    /\ opens' = opens + 1
    /\ \E e \in OpenErrors :
          /\ open_err' = Some(e)
          /\ last_error' = RecordError(last_error, e)
    /\ pc' = "open_failed"
    /\ UNCHANGED <<args, plug, devices, attempt, device_info, device, console,
                   exit_status, enumerations, sleeps, slept_ms>>
    /\ UNCHANGED ioVars

\* lines 65-69, 47, 77-78: announce and sleep if attempts remain, then take
\* the next iteration or return the final error
RetryOrGiveUp ==
    /\ pc = "open_failed"
    /\ IF ShouldSleep(attempt, args.retries)
       THEN /\ console' = Emit(console, "stdout", "attempt_failed",
                                <<attempt + 1, args.retry_delay>>)
            /\ sleeps' = sleeps + 1
            /\ slept_ms' = slept_ms + args.retry_delay
       ELSE UNCHANGED <<console, sleeps, slept_ms>>
    /\ IF LoopContinues(attempt, args.retries)
       THEN /\ attempt' = attempt + 1
            /\ device_info' = None
            /\ pc' = "enumerate"
            /\ UNCHANGED <<devices, last_error, exit_status>>
       ELSE /\ exit_status' = Exited("OpenFailed", Unwrap(last_error))
            /\ pc' = AfterAcquireError("OpenFailed")
            /\ attempt' = 0
            /\ last_error' = None
            /\ device_info' = None
            /\ devices' = <<>>
    /\ UNCHANGED <<args, plug, device, enumerations, opens, open_err>>
    /\ UNCHANGED ioVars

(***************************************************************************)
(* The report exchange of main and read_input_reports                       *)
(***************************************************************************)
Min(a, b) == IF a <= b THEN a ELSE b

\* faulty variant of BuildOutputReport: only the payload, without padding
BuildOutputReportUnpadded(bytes) ==
    SubSeq(bytes, 1, Min(Len(bytes), HID_REPORT_SIZE))

\* faulty variant of BuildOutputReport: one byte too few is copied
BuildOutputReportShort(bytes) ==
    LET len == Min(Len(bytes), HID_REPORT_SIZE - 1)
    IN  [i \in 1..HID_REPORT_SIZE |-> IF i <= len THEN bytes[i] ELSE 0]

\* lines 112, 116-117: the payload left-aligned in a zeroed 64-byte buffer
BuildOutputReport(bytes) ==
    LET len == Min(Len(bytes), HID_REPORT_SIZE)
    IN  [i \in 1..HID_REPORT_SIZE |-> IF i <= len THEN bytes[i] ELSE 0]

\* line 123: the slice handed to device.write
WriteArg(report) == report

\* faulty variant of AfterWrite: a failed write is issued again
AfterWriteRetry(ok, continuous) ==
    IF ~ok THEN "write"
    ELSE IF continuous THEN "read_loop" ELSE "read_response"

\* faulty variant of AfterWrite: a failed write ends the program
AfterWriteStopOnError(ok, continuous) ==
    IF ~ok THEN "exit"
    ELSE IF continuous THEN "read_loop" ELSE "read_response"

\* line 128: after the write, whatever its result
AfterWrite(ok, continuous) == IF continuous THEN "read_loop" ELSE "read_response"

\* results of one device.read call: Ok(len) with the bytes stored, or Err
ReadResults ==
    { [ok |-> TRUE, len |-> n, fill |-> b] :
        n \in {0, 1, HID_REPORT_SIZE}, b \in {90, 165} }
    \cup { [ok |-> FALSE, len |-> 0, fill |-> 0] }

\* device.read stores the first len bytes of the buffer
ReadInto(buf, r) ==
    [i \in 1..Len(buf) |-> IF r.ok /\ i <= r.len THEN r.fill ELSE buf[i]]

\* faulty variant of ReportSlice: the whole buffer is printed
ReportSliceWhole(buf, len) == buf

\* lines 87, 137, 151: &input_report[..len]
ReportSlice(buf, len) == SubSeq(buf, 1, len)

\* lines 86-87, 136-137, 150-151: the two lines printed for a received report
EmitReport(con, msg, buf, len) ==
    Emit(Emit(con, "stdout", msg, <<len>>), "stdout", "hex", ReportSlice(buf, len))

\* faulty variant of Dispatch: the payload is never sent
DispatchNeverSend(data, continuous) ==
    IF continuous THEN "read_loop" ELSE "read_current"

\* faulty variant of Dispatch: without --data the continuous flag is ignored
DispatchAlwaysLoop(data, continuous) ==
    IF IsSome(data) THEN "send" ELSE "read_loop"

\* lines 110, 142, 145: which branch main takes once the device is open
Dispatch(data, continuous) ==
    IF IsSome(data) THEN "send"
    ELSE IF continuous THEN "read_loop"
    ELSE "read_current"

\* faulty variant of LoopAfterRead: a failed read does not break the loop
LoopAfterReadAlways(ok) == TRUE

\* lines 84-93: whether read_input_reports goes round again
LoopAfterRead(ok) == ok

\* lines 110-120: decode --data, fill the output report and announce it;
\* hex::decode(data)? returns its error from main
DecodePayload ==
    /\ pc = "opened"
    /\ Dispatch(args.data, args.continuous) = "send"
    /\ LET r == HexDecode(Unwrap(args.data))
       IN  IF r.ok
           THEN /\ output_report' = BuildOutputReport(r.bytes)
                /\ console' = Emit(Emit(console, "stdout", "sending", <<HID_REPORT_SIZE>>),
                                    "stdout", "hex", BuildOutputReport(r.bytes))
                /\ pc' = "write"
                /\ UNCHANGED exit_status
           ELSE /\ exit_status' = Exited("PayloadDecodeError", r.err)
                /\ pc' = "exit"
                /\ UNCHANGED <<output_report, console>>
    /\ UNCHANGED <<args, plug, devices, device, input_report, writes, reads>>
    /\ UNCHANGED acquireVars

\* lines 123-128: one write of the whole buffer; its result is printed and
\* the read step follows
WriteReport ==
    /\ pc = "write"
    /\ writes' = Append(writes, WriteArg(output_report))
    /\ \E ok \in BOOLEAN :
          /\ console' = IF ok THEN Emit(console, "stdout", "sent", <<>>)
                              ELSE Emit(console, "stderr", "error_sending", <<>>)
          /\ pc' = AfterWrite(ok, args.continuous)
    /\ UNCHANGED <<args, plug, devices, device, output_report, input_report, reads,
                   exit_status>>
    /\ UNCHANGED acquireVars

\* lines 131-141, 157: the single read after a write
ReadResponse ==
    /\ pc = "read_response"
    /\ reads' = reads + 1
    /\ \E r \in ReadResults :
          /\ input_report' = ReadInto(input_report, r)
          /\ console' = IF r.ok
                         THEN EmitReport(console, "received", ReadInto(input_report, r), r.len)
                         ELSE Emit(console, "stderr", "error_reading_response", <<>>)
    /\ pc' = "exit"
    /\ exit_status' = Exited("ok", "")
    /\ UNCHANGED <<args, plug, devices, device, output_report, writes>>
    /\ UNCHANGED acquireVars

\* lines 110, 142, 145-155, 157: no --data and not continuous: a single read
ReadCurrent ==
    /\ pc = "opened"
    /\ Dispatch(args.data, args.continuous) = "read_current"
    /\ reads' = reads + 1
    /\ \E r \in ReadResults :
          /\ input_report' = ReadInto(input_report, r)
          /\ console' = IF r.ok
                         THEN EmitReport(console, "current", ReadInto(input_report, r), r.len)
                         ELSE Emit(console, "stdout", "could_not_read", <<>>)
    /\ pc' = "exit"
    /\ exit_status' = Exited("ok", "")
    /\ UNCHANGED <<args, plug, devices, device, output_report, writes>>
    /\ UNCHANGED acquireVars

\* read_input_reports is running: entered after the write (lines 128-130)
\* or, without --data, straight after the open (lines 142-144)
InReadLoop ==
    \/ pc = "read_loop"
    \/ pc = "opened" /\ Dispatch(args.data, args.continuous) = "read_loop"

\* lines 83-93, 157: one iteration of read_input_reports
ReadInputReport ==
    /\ InReadLoop
    /\ reads < MaxReads
    /\ reads' = reads + 1
    /\ \E r \in ReadResults :
          /\ input_report' = ReadInto(input_report, r)
          /\ console' = IF r.ok
                         THEN EmitReport(console, "received", ReadInto(input_report, r), r.len)
                         ELSE Emit(console, "stderr", "error_reading_input", <<>>)
          /\ IF LoopAfterRead(r.ok)
             THEN pc' = "read_loop" /\ UNCHANGED exit_status
             ELSE pc' = "exit" /\ exit_status' = Exited("ok", "")
    /\ UNCHANGED <<args, plug, devices, device, output_report, writes>>
    /\ UNCHANGED acquireVars

(***************************************************************************)
(* Specifications                                                           *)
(***************************************************************************)
\* the program at the start of main, the command line parsed (line 98)
Init ==
    /\ args \in ArgsOver(DataArgs)
    /\ pc = "start"
    /\ devices = <<>>
    /\ plug = "same"
    /\ attempt = 0
    /\ last_error = None
    /\ device_info = None
    /\ device = None
    /\ output_report = ZeroReport
    /\ input_report = ZeroReport
    /\ console = <<>>
    /\ exit_status = Running
    /\ enumerations = 0
    /\ opens = 0
    /\ open_err = None
    /\ sleeps = 0
    /\ slept_ms = 0
    /\ writes = <<>>
    /\ reads = 0

Acquire ==
    \/ HidApiNew
    \/ HidApiNewFails
    \/ FindDevice
    \/ OpenPathOk
    \/ OpenPathErr
    \/ RetryOrGiveUp

Exchange ==
    \/ DecodePayload
    \/ WriteReport
    \/ ReadResponse
    \/ ReadCurrent
    \/ ReadInputReport

Next == Acquire \/ Exchange

Spec == Init /\ [][Next]_vars

\* The interfaces attached now.  HidApi::new() listed them once (line 101)
\* and the program never lists them again, so that a device that has
\* re-registered since ("moved": every interface under a new path) or was
\* removed ("gone") is still in devices under its old entry.
Attached ==
    CASE plug = "same" -> devices
      [] plug = "moved" ->
           [i \in DOMAIN devices |->
               [devices[i] EXCEPT !.path = devices[i].path + Len(devices)]]
      [] plug = "gone" -> <<>>

\* line 68: while open_device_with_retry deals with a failed open and
\* sleeps, the device re-registers, is removed or comes back
DeviceReregisters ==
    /\ pc = "open_failed"
    /\ \E p \in {"same", "moved", "gone"} :
          /\ p # plug
          /\ plug' = p
    /\ UNCHANGED <<args, pc, devices, device, console, exit_status>>
    /\ UNCHANGED acquireVars
    /\ UNCHANGED ioVars

\* the program in an environment where the attached devices change
SpecEnv == Init /\ [][Next \/ DeviceReregisters]_vars

\* the report exchange on its own: main at line 108, the device opened at
\* the first attempt, with every payload length up to MaxPayloadLen
InitExchange ==
    /\ args \in { a \in ArgsOver(ExchangeDataArgs) :
                      a.retries = 0 /\ a.retry_delay = RETRY_DELAY_MS }
    /\ pc = "opened"
    /\ devices = <<>>
    /\ plug = "same"
    /\ attempt = 0
    /\ last_error = None
    /\ device_info = None
    /\ device = Some(1)
    /\ output_report = ZeroReport
    /\ input_report = ZeroReport
    /\ console = << Line("stdout", "searching", <<4660, 22136>>),
                    Line("stdout", "opened", <<>>) >>
    /\ exit_status = Running
    /\ enumerations = 1
    /\ opens = 1
    /\ open_err = None
    /\ sleeps = 0
    /\ slept_ms = 0
    /\ writes = <<>>
    /\ reads = 0

SpecExchange == InitExchange /\ [][Exchange]_vars

(***************************************************************************)
(* Properties of open_device_with_retry                                     *)
(***************************************************************************)
MatchesId(d) == d.vendor_id = args.vid /\ d.product_id = args.pid

MatchesPreferred(d) == MatchesId(d) /\ d.usage_page = VENDOR_PAGE

IdIndexes == {i \in DOMAIN devices : MatchesId(devices[i])}

PreferredIndexes == {i \in DOMAIN devices : MatchesPreferred(devices[i])}

Least(S) == CHOOSE i \in S : \A j \in S : i <= j

\* an open_path call is made in this step
OpenCalled == pc = "open" /\ opens' = opens + 1

\* the path handed to open_path in an OpenCalled step
OpenedPath == Unwrap(device_info).path

CountLines(msg) == Cardinality({i \in DOMAIN console : console[i].msg = msg})

\* C1: when every open fails, exactly args.retries + 1 opens are attempted
\* and main then ends with OpenFailed carrying the error of the last open;
\* no run makes more than args.retries + 1 opens.
C1_OpenFailedAfterAllAttempts ==
    /\ opens <= args.retries + 1
    /\ (pc = "exit" /\ opens > 0 /\ ~IsSome(device)) =>
          /\ exit_status.kind = "OpenFailed"
          /\ opens = args.retries + 1
    /\ exit_status.kind = "OpenFailed" =>
          /\ opens = args.retries + 1
          /\ ~IsSome(device)
          /\ IsSome(open_err)
          /\ exit_status.error = Unwrap(open_err)

C1_Witness ==
    /\ exit_status.kind = "OpenFailed"
    /\ args.retries = MaxRetries
    /\ opens = MaxRetries + 1
    /\ exit_status.error = "denied"

\* C2: when the open succeeds after N failures (N <= args.retries), the
\* device is returned after exactly N + 1 opens and exactly N sleeps, so
\* the time slept is at least N * args.retry_delay.
C2_SessionAfterNFailures ==
    IsSome(device) =>
        LET N == opens - 1
        IN  /\ N >= 0
            /\ N <= args.retries
            /\ sleeps = N
            /\ slept_ms >= N * args.retry_delay
            /\ CountLines("attempt_failed") = N
            /\ pc # "exit" \/ exit_status.kind \in {"ok", "PayloadDecodeError"}

C2_Witness ==
    /\ IsSome(device)
    /\ pc = "opened"
    /\ args.retries = MaxRetries
    /\ opens = MaxRetries + 1
    /\ sleeps = MaxRetries
    /\ slept_ms = MaxRetries * 250

\* C3: when no listed interface matches vendor and product id, the search
\* step ends main with DeviceNotFound and makes no open, sleep or retry;
\* a run that ends with DeviceNotFound has opened and slept zero times.
C3_NotFoundIsImmediate ==
    /\ [](exit_status.kind = "DeviceNotFound" =>
             /\ opens = 0
             /\ sleeps = 0
             /\ slept_ms = 0
             /\ CountLines("attempt_failed") = 0
             /\ pc = "exit")
    /\ [][(pc = "enumerate" /\ IdIndexes = {}) =>
             /\ exit_status'.kind = "DeviceNotFound"
             /\ pc' = "exit"
             /\ opens' = 0
             /\ sleeps' = 0]_vars

C3_Witness ==
    /\ exit_status.kind = "DeviceNotFound"
    /\ console = << Line("stdout", "searching", <<args.vid, args.pid>>) >>

\* C4: when some listed interface matches vendor and product id and none
\* matches the vendor usage page as well, the search does not fail and the
\* path opened is that of the first interface matching vendor and product.
C4_FallbackIsOpened ==
    /\ [][(pc = "enumerate" /\ IdIndexes # {} /\ PreferredIndexes = {}) =>
             /\ pc' = "open"
             /\ device_info' = Some(devices[Least(IdIndexes)])]_vars
    /\ [][(OpenCalled /\ IdIndexes # {} /\ PreferredIndexes = {}) =>
             /\ OpenedPath = devices[Least(IdIndexes)].path
             /\ IsSome(device') => Unwrap(device') = devices[Least(IdIndexes)].path]_vars

C4_Witness ==
    /\ pc = "open_failed"
    /\ Len(devices) = 2
    /\ ~MatchesId(devices[1])
    /\ MatchesId(devices[2])
    /\ PreferredIndexes = {}
    /\ Unwrap(device_info).path = 2

\* C5: when some listed interface matches vendor id, product id and the
\* vendor usage page, the path opened is that of the first such interface,
\* also when interfaces matching only vendor and product id come earlier.
C5_PreferredIsOpened ==
    /\ [][(pc = "enumerate" /\ PreferredIndexes # {}) =>
             /\ pc' = "open"
             /\ device_info' = Some(devices[Least(PreferredIndexes)])]_vars
    /\ [][(OpenCalled /\ PreferredIndexes # {}) =>
             /\ OpenedPath = devices[Least(PreferredIndexes)].path
             /\ IsSome(device') => Unwrap(device') = devices[Least(PreferredIndexes)].path]_vars

C5_Witness ==
    /\ pc = "open_failed"
    /\ Len(devices) = 2
    /\ MatchesId(devices[1])
    /\ ~MatchesPreferred(devices[1])
    /\ MatchesPreferred(devices[2])
    /\ Unwrap(device_info).path = 2

(***************************************************************************)
(* Properties of the report exchange                                        *)
(***************************************************************************)
\* the payload bytes the --data argument encodes
Payload == HexDecode(Unwrap(args.data)).bytes

PayloadValid == IsSome(args.data) /\ HexDecode(Unwrap(args.data)).ok

Zeros(n) == [i \in 1..n |-> 0]

\* C6: for a payload P of at most 64 bytes (the empty one included) the
\* buffer passed to write is 64 bytes long and is P followed by zero bytes.
\* (Stated where the write has just been made; at most one write is made.)
C6_ShortPayloadZeroPadded ==
    /\ Len(writes) <= 1
    /\ (Len(writes) > 0 /\ reads = 0 /\ Len(Payload) <= HID_REPORT_SIZE) =>
          /\ HexText(Payload) = Unwrap(args.data)
          /\ Len(writes[1]) = HID_REPORT_SIZE
          /\ writes[1] = Payload \o Zeros(HID_REPORT_SIZE - Len(Payload))

C6_Witness ==
    /\ Len(writes) = 1
    /\ Len(Payload) = HID_REPORT_SIZE - 1
    /\ Payload[HID_REPORT_SIZE - 1] = 255
    /\ writes[1][HID_REPORT_SIZE - 1] = 255
    /\ writes[1][HID_REPORT_SIZE] = 0

\* C7: for a payload P of more than 64 bytes the buffer passed to write is
\* the first 64 bytes of P; the long payload is no error and the write is
\* issued before main goes on.  (Stated up to the first read.)
C7_LongPayloadTruncated ==
    (reads = 0 /\ PayloadValid /\ Len(Payload) > HID_REPORT_SIZE) =>
        /\ exit_status.kind # "PayloadDecodeError"
        /\ pc \notin {"opened", "write"} =>
              /\ Len(writes) = 1
              /\ writes[1] = SubSeq(Payload, 1, HID_REPORT_SIZE)

C7_Witness ==
    /\ Len(writes) = 1
    /\ PayloadValid
    /\ Len(Payload) = MaxPayloadLen
    /\ writes[1][HID_REPORT_SIZE] = Payload[HID_REPORT_SIZE]
    /\ Payload[HID_REPORT_SIZE] # 0

\* C8: in continuous mode the loop ends at the first failing read: after k
\* successful reads and one failing read exactly k reports have been
\* printed and k + 1 read calls made, and none is made afterwards; while
\* the loop runs every read call has printed one report.
C8_LoopEndsAtFirstReadError ==
    args.continuous =>
        /\ pc = "read_loop" =>
              /\ CountLines("received") = reads
              /\ CountLines("error_reading_input") = 0
        /\ (pc = "exit" /\ exit_status.kind = "ok") =>
              /\ reads = CountLines("received") + 1
              /\ CountLines("error_reading_input") = 1
              /\ console[Len(console)].msg = "error_reading_input"

C8_Witness ==
    /\ args.continuous
    /\ pc = "exit"
    /\ exit_status.kind = "ok"
    /\ CountLines("received") = 2
    /\ reads = 3

\* C9: without --data and without --continuous, once the device is open
\* exactly one read is made, its result is printed once, and nothing is
\* written.
C9_SingleReadNoWrite ==
    (~IsSome(args.data) /\ ~args.continuous /\ IsSome(device)) =>
        /\ writes = <<>>
        /\ CountLines("sending") = 0
        /\ pc \in {"opened", "exit"}
        /\ pc = "opened" =>
              /\ reads = 0
              /\ CountLines("current") + CountLines("could_not_read") = 0
        /\ pc = "exit" =>
              /\ reads = 1
              /\ CountLines("current") + CountLines("could_not_read") = 1
              /\ CountLines("current") = CountLines("hex")
              /\ exit_status.kind = "ok"

C9_Witness ==
    /\ ~IsSome(args.data)
    /\ ~args.continuous
    /\ pc = "exit"
    /\ reads = 1
    /\ CountLines("could_not_read") = 1

\* C10: a failed write is reported and main goes on to the read step as
\* after a successful write: the single read without --continuous, the
\* read loop with it.
C10_WriteErrorContinues ==
    CountLines("error_sending") > 0 =>
        /\ CountLines("error_sending") = 1
        /\ CountLines("sent") = 0
        /\ Len(writes) = 1
        /\ reads = 0 =>
              /\ pc = (IF args.continuous THEN "read_loop" ELSE "read_response")
              /\ exit_status = Running
        /\ pc = "exit" =>
              /\ exit_status.kind = "ok"
              /\ reads >= 1
              /\ ~args.continuous => reads = 1

C10_Witness ==
    /\ CountLines("error_sending") = 1
    /\ ~args.continuous
    /\ pc = "exit"
    /\ reads = 1
    /\ CountLines("received") = 1

(***************************************************************************)
(* Further properties of main                                               *)
(***************************************************************************)
\* C11: a --data argument that is not valid hex ends main with
\* PayloadDecodeError before any device interaction: no open, write or read
\* has been made and no device is held when the error is returned.
C11_DecodeErrorBeforeDevice ==
    exit_status.kind = "PayloadDecodeError" =>
        /\ opens = 0
        /\ ~IsSome(device)
        /\ CountLines("opened") = 0
        /\ writes = <<>>
        /\ reads = 0

\* open_path calls that returned an error
FailedOpens == opens - (IF IsSome(device) THEN 1 ELSE 0)

\* open_device_with_retry is running, or has returned an error
InAcquire == pc \in {"enumerate", "open", "open_failed"}

AcquireFailed == exit_status.kind \in {"DeviceNotFound", "OpenFailed"}

\* C12 as stated: one progress line per failed open attempt, so that the
\* number of "Attempt n failed" lines equals the number of failed opens
\* (compared wherever the failed open has been fully handled).
C12_LinePerFailedOpen ==
    pc # "open_failed" => CountLines("attempt_failed") = FailedOpens

\* C12 amended: one progress line per failed open attempt that is followed
\* by a retry: as many lines as sleeps, one fewer than the failed opens once
\* the last attempt has failed; up to its return open_device_with_retry
\* writes nothing, reads nothing and leaves the report buffers alone.
C12_LinePerRetriedOpen ==
    /\ CountLines("attempt_failed") = sleeps
    /\ pc = "open_failed" => CountLines("attempt_failed") = FailedOpens - 1
    /\ pc # "open_failed" =>
          CountLines("attempt_failed") =
              FailedOpens - (IF exit_status.kind = "OpenFailed" THEN 1 ELSE 0)
    /\ (InAcquire \/ AcquireFailed) =>
          /\ writes = <<>>
          /\ reads = 0
          /\ output_report = ZeroReport
          /\ input_report = ZeroReport
          /\ ~IsSome(device)

C12_Witness ==
    /\ exit_status.kind = "OpenFailed"
    /\ opens = MaxRetries + 1
    /\ CountLines("attempt_failed") = MaxRetries
    /\ console[Len(console)].arg = <<MaxRetries, 250>>

ReadErrorLines ==
    CountLines("error_reading_input") + CountLines("error_reading_response")
        + CountLines("could_not_read")

\* C13: once the device is open nothing is retried: no further candidate
\* selection, open or sleep is made and the device held stays the same; the
\* payload is written at most once and a failed write is not issued again;
\* after a failed read no read is made; without --continuous exactly one
\* read call has been made when main returns.
C13_NoRetryAfterOpen ==
    /\ [](IsSome(device) =>
             /\ pc \in {"opened", "write", "read_loop", "read_response", "exit"}
             /\ CountLines("opened") = 1
             /\ Len(writes) <= 1
             /\ ReadErrorLines <= 1
             /\ (~args.continuous /\ exit_status.kind = "ok") => reads = 1)
    /\ [][IsSome(device) =>
             /\ device' = device
             /\ enumerations' = enumerations
             /\ opens' = opens
             /\ sleeps' = sleeps]_vars
    /\ [][CountLines("error_sending") > 0 => writes' = writes]_vars
    /\ [][ReadErrorLines > 0 => reads' = reads]_vars

C13_Witness ==
    /\ IsSome(device)
    /\ opens = 2
    /\ CountLines("error_sending") = 1
    /\ CountLines("error_reading_response") = 1
    /\ Len(writes) = 1
    /\ reads = 1
    /\ pc = "exit"

\* the candidate a selection over the interfaces attached now would yield
AttachedIdIndexes == {i \in DOMAIN Attached : MatchesId(Attached[i])}

AttachedPreferredIndexes ==
    {i \in DOMAIN Attached : MatchesPreferred(Attached[i])}

CurrentCandidate ==
    IF AttachedPreferredIndexes # {}
    THEN Attached[Least(AttachedPreferredIndexes)]
    ELSE Attached[Least(AttachedIdIndexes)]

\* C14: every open attempt opens the path selected from a fresh listing of
\* the attached interfaces: when the device has re-registered under another
\* path between two attempts, the retry opens the current path, not one
\* kept from an earlier attempt.
C14_OpenUsesCurrentListing ==
    [][(OpenCalled /\ AttachedIdIndexes # {}) =>
          OpenedPath = CurrentCandidate.path]_vars

LastLine == console[Len(console)]

\* C15: the read loop is left only by a failing read: main returns from
\* continuous mode only with the read error as its last line, and after
\* every successful read (one of length 0 included) the loop is still
\* running and makes another read call; each successful read prints one
\* report, the first len bytes of the 64-byte buffer.
C15_LoopExitsOnlyOnReadError ==
    args.continuous =>
        /\ (pc = "exit" /\ exit_status.kind = "ok") =>
              LastLine.msg = "error_reading_input"
        /\ (reads > 0 /\ LastLine.msg = "hex") =>
              LET header == console[Len(console) - 1]
              IN  /\ pc = "read_loop"
                  /\ header.msg = "received"
                  /\ Len(input_report) = HID_REPORT_SIZE
                  /\ header.arg[1] \in 0..HID_REPORT_SIZE
                  /\ Len(LastLine.arg) = header.arg[1]
                  /\ LastLine.arg = SubSeq(input_report, 1, header.arg[1])
                  /\ CountLines("received") = reads
                  /\ CountLines("hex") = reads + CountLines("sending")
        /\ (pc = "read_loop" /\ reads < MaxReads) => ENABLED ReadInputReport

C15_Witness ==
    /\ args.continuous
    /\ pc = "read_loop"
    /\ reads = 2
    /\ console[Len(console) - 1] = Line("stdout", "received", <<0>>)
    /\ LastLine = Line("stdout", "hex", <<>>)
    /\ input_report[1] = 165

\* C16: when a payload is supplied, exactly one write is issued and it
\* comes before every read: no read call is made while nothing has been
\* written, at most one write is ever made, and main returns normally only
\* after the write and at least one read (exactly one without --continuous).
C16_WriteBeforeReads ==
    IsSome(args.data) =>
        /\ Len(writes) <= 1
        /\ reads > 0 => Len(writes) = 1
        /\ pc \in {"read_loop", "read_response"} => Len(writes) = 1
        /\ pc = "write" => (writes = <<>> /\ reads = 0)
        /\ exit_status.kind = "ok" =>
              /\ Len(writes) = 1
              /\ reads >= 1
              /\ ~args.continuous => reads = 1

C16_Witness ==
    /\ IsSome(args.data)
    /\ args.continuous
    /\ Len(writes) = 1
    /\ reads = 2
    /\ CountLines("sent") = 1
    /\ pc = "read_loop"

\* C17: the error kind follows the last listing of the attached interfaces:
\* OpenFailed is returned only after args.retries + 1 selections that found
\* a candidate and args.retries + 1 failed opens, and a selection made while
\* no attached interface matches (on a retry as well, after failed opens
\* and sleeps) ends main at once with DeviceNotFound, the recorded open
\* error being dropped.
C17_ErrorKindFromLastListing ==
    /\ [](exit_status.kind = "OpenFailed" =>
             /\ enumerations = args.retries + 1
             /\ opens = args.retries + 1
             /\ ~IsSome(device))
    /\ [][(pc = "enumerate" /\ enumerations' = enumerations + 1
              /\ AttachedIdIndexes = {}) =>
             /\ exit_status'.kind = "DeviceNotFound"
             /\ pc' = "exit"
             /\ last_error' = None]_vars

\* C18: the number of sleeps never exceeds args.retries nor the number of
\* failed opens; the last failed open (the one that ends in OpenFailed) is
\* not followed by a sleep; with args.retries = 0 a single open is attempted
\* and no sleep is made.
C18_SleepsBounded ==
    /\ sleeps <= args.retries
    /\ sleeps <= FailedOpens
    /\ slept_ms = sleeps * args.retry_delay
    /\ exit_status.kind = "OpenFailed" => sleeps = FailedOpens - 1
    /\ args.retries = 0 =>
          /\ sleeps = 0
          /\ opens <= 1
          /\ (IsSome(device) \/ exit_status.kind = "OpenFailed") => opens = 1

C18_Witness ==
    /\ args.retries = 0
    /\ exit_status.kind = "OpenFailed"
    /\ opens = 1
    /\ sleeps = 0
    /\ CountLines("attempt_failed") = 0

\* C19: no report is written or read without an opened device: a run in
\* which open_device_with_retry fails with DeviceNotFound or OpenFailed ends
\* with no write and no read; every write and read is made after the one
\* successful open of the run.
C19_NoIoWithoutDevice ==
    /\ (reads > 0 \/ writes # <<>>) => IsSome(device)
    /\ CountLines("opened") = (IF IsSome(device) THEN 1 ELSE 0)
    /\ IsSome(device) => (open_err = None /\ FailedOpens = opens - 1)
    /\ AcquireFailed =>
          /\ pc = "exit"
          /\ reads = 0
          /\ writes = <<>>
          /\ CountLines("sending") = 0
          /\ ~IsSome(device)

C19_Witness ==
    /\ exit_status.kind = "OpenFailed"
    /\ exit_status.error = "busy"
    /\ pc = "exit"
    /\ opens = 2
    /\ reads = 0
    /\ writes = <<>>
    /\ IsSome(args.data)

\* steps main can still take: a bound on what is left of the retry loop
\* (three steps per iteration) and, without --continuous, of the exchange
StepsLeft ==
    LET exchange == IF args.continuous THEN 0 ELSE 4
        left == 3 * (args.retries - attempt)
    IN  CASE pc = "start" -> 3 * args.retries + 4 + exchange
          [] pc = "enumerate" -> left + 3 + exchange
          [] pc = "open" -> left + 2 + exchange
          [] pc = "open_failed" -> left + 1 + exchange
          [] pc = "opened" -> IF args.continuous THEN 0 ELSE 3
          [] pc = "write" -> IF args.continuous THEN 0 ELSE 2
          [] pc = "read_response" -> IF args.continuous THEN 0 ELSE 1
          [] OTHER -> 0

\* main is in open_device_with_retry, or runs without --continuous
MustTerminate ==
    pc # "exit" /\ (pc \in {"start", "enumerate", "open", "open_failed"}
                      \/ ~args.continuous)

\* C20: open_device_with_retry always returns, with a device or an error,
\* after at most args.retries + 1 candidate selections and at most
\* args.retries + 1 opens; without --continuous main returns after at most
\* one write and one read.  Termination is stated by a bound: in the retry
\* loop, and without --continuous up to the return of main, a step is
\* always possible and every step lowers StepsLeft, which is never negative.
C20_Terminates ==
    /\ [](/\ enumerations <= args.retries + 1
          /\ opens <= args.retries + 1
          /\ attempt <= args.retries
          /\ ~args.continuous => (Len(writes) <= 1 /\ reads <= 1)
          /\ StepsLeft >= 0
          /\ MustTerminate => (StepsLeft > 0 /\ ENABLED Next))
    /\ [][MustTerminate => StepsLeft' < StepsLeft]_vars

C20_Witness ==
    /\ ~args.continuous
    /\ pc = "exit"
    /\ exit_status.kind = "ok"
    /\ enumerations = MaxRetries + 1
    /\ opens = MaxRetries + 1
    /\ Len(writes) = 1
    /\ reads = 1

====
